---- MODULE Spec2Model ----
(***************************************************************************)
(* Model of fastapi_app.py: the upload-and-extract pipeline, the frame     *)
(* listing and the archive builder, over a small file system made of the   *)
(* output directory "output_frames" and the staged file "temp_video.mp4".  *)
(*                                                                         *)
(* File names are sequences of character codes, so that str.endswith,      *)
(* str.lower and the lexical order used by sorted() are computed.          *)
(*                                                                         *)
(* upload_video is an "async def" without any await: inside one server     *)
(* process it runs on the event loop from its first line to its last.      *)
(* Two uploads overlap only in different server processes started on the   *)
(* same working directory (several workers); Workers counts them.  The     *)
(* plain "def" handlers (index, download_zip) run on threadpool threads    *)
(* and do overlap with an upload of the same process.                      *)
(*                                                                         *)
(*   Spec         one server process (the documented way to run the app):  *)
(*                its uploads and the request of one threadpool thread     *)
(*   SpecWorkers  the uploads of Workers server processes                  *)
(*   SpecList     index() over directories an earlier server run left      *)
(***************************************************************************)
EXTENDS Integers, Sequences, FiniteSets, TLC

\* ---------------------------------------------------------------- bounds
Workers == 2       \* server processes sharing the working directory
MaxFrames == 1     \* key frames in one uploaded video
MaxSel == 2        \* identifiers in one archive request
MaxListed == 10    \* frame files left in the directory by an earlier server run

\* ------------------------------------------------------------ characters
Str_frame_  == <<102, 114, 97, 109, 101, 95>>                  \* "frame_"
DotJpg      == <<46, 106, 112, 103>>                           \* ".jpg"
DotPng      == <<46, 112, 110, 103>>                           \* ".png"
UpperJpg    == <<70, 82, 65, 77, 69, 95, 49, 46, 74, 80, 71>>  \* "FRAME_1.JPG"
CoverPng    == <<99, 111, 118, 101, 114, 46, 112, 110, 103>>   \* "cover.png"
NotesTxt    == <<110, 111, 116, 101, 115, 46, 116, 120, 116>>  \* "notes.txt"
BogusJpg    == <<98, 111, 103, 117, 115, 46, 106, 112, 103>>   \* "bogus.jpg"

\* str.lower() on one character code: 'A'..'Z' become 'a'..'z'
LowerChar(c) == IF c >= 65 /\ c <= 90 THEN c + 32 ELSE c

\* str.lower()
Lower(s) == [i \in 1..Len(s) |-> LowerChar(s[i])]

\* str.endswith(suffix)
EndsWith(s, suf) ==
    /\ Len(s) >= Len(suf)
    /\ \A i \in 1..Len(suf) : s[Len(s) - Len(suf) + i] = suf[i]

\* the decimal digits of n >= 0, as "%d" prints them
RECURSIVE Decimal(_)
Decimal(n) == IF n < 10 THEN <<48 + n>>
              ELSE Decimal(n \div 10) \o <<48 + (n % 10)>>

\* the output pattern os.path.join(output_folder, "frame_%d.jpg"), file part
FrameName(n) == Str_frame_ \o Decimal(n) \o DotJpg

\* str < str of Python: by code point, a proper prefix comes first
RECURSIVE StrLess(_, _)
StrLess(a, b) ==
    IF Len(b) = 0 THEN FALSE
    ELSE IF Len(a) = 0 THEN TRUE
    ELSE IF a[1] # b[1] THEN a[1] < b[1]
    ELSE StrLess(Tail(a), Tail(b))

\* sorted(S) for a set of distinct strings
RECURSIVE Sorted(_)
Sorted(S) ==
    IF S = {} THEN <<>>
    ELSE LET m == CHOOSE x \in S : \A y \in S \ {x} : StrLess(x, y)
         IN  <<m>> \o Sorted(S \ {m})

\* ------------------------------------------------------------------ paths
OUTPUT_DIR  == <<111, 117, 116, 112, 117, 116, 95, 102, 114, 97, 109, 101, 115>>
                                                          \* "output_frames"
TempVideo   == <<116, 101, 109, 112, 95, 118, 105, 100, 101, 111, 46, 109,
                 112, 52>>                                \* "temp_video.mp4"
Slash == <<47>>
Dot == <<46>>
DotDot == <<46, 46>>

\* os.path.join(a, b) on POSIX
Join(a, b) ==
    IF Len(b) > 0 /\ b[1] = 47 THEN b
    ELSE IF Len(a) = 0 \/ a[Len(a)] = 47 THEN a \o b
    ELSE a \o Slash \o b

\* os.path.basename(p): what follows the last "/"
RECURSIVE Basename(_)
Basename(p) ==
    IF \A i \in 1..Len(p) : p[i] # 47 THEN p
    ELSE Basename(Tail(p))

\* p.split("/")
RECURSIVE Components(_, _)
Components(p, cur) ==
    IF Len(p) = 0 THEN <<cur>>
    ELSE IF p[1] = 47 THEN <<cur>> \o Components(Tail(p), <<>>)
    ELSE Components(Tail(p), Append(cur, p[1]))

\* _get_frames_list(): the sorted names ending in ".jpg", case-insensitively
ListFilter(f) == EndsWith(Lower(f), DotJpg)
GetFramesList(dir) == Sorted({f \in DOMAIN dir : ListFilter(f)})

\* ----------------------------------------------------------------- state
VARIABLES
    output_frames,  \* OUTPUT_DIR: file name -> the server process whose run
                    \*             wrote it (0: it was there at start-up)
    temp_video,     \* "temp_video.mp4": NoFile or the staged payload
    job,            \* per server process: the upload request it is handling
    lastRun,        \* the process whose extraction started last (0: none)
    req,            \* the request on the threadpool thread: handler,
                    \* position, locals and answer
    published,      \* history: the listing when the last extraction ended
    archived,       \* history: the first archive that was delivered
    probe           \* history: what the last call of ffmpeg_exists() found
                    \* and answered

vars == <<output_frames, temp_video, job, lastRun, req, published, archived,
          probe>>

Procs == 1..Workers
NoFile == [owner |-> 0, frames |-> 0, complete |-> FALSE]

\* files that may lie in the output directory when the process starts
\* (os.makedirs(OUTPUT_DIR, exist_ok=True) keeps what is there)
Strays == {UpperJpg, CoverPng, NotesTxt}

\* "../temp_video.mp4": from the output directory, the staging path
UpTempVideo == DotDot \o Slash \o TempVideo

\* identifiers a caller may put in an archive request
Identifiers ==
    {FrameName(i) : i \in 1..MaxFrames} \cup {BogusJpg, NotesTxt, UpTempVideo}

\* HTTP status codes of the answers
StatusOK == 200
StatusClientError == 400
StatusNotFound == 404
StatusServerError == 500

\* an upload request: position, locals (input_video_path; n and written, the
\* progress of the tool), the exception under way, the answer, and for the
\* properties: reached (extract_iframes was entered)
IdleJob == [pc |-> "idle", input_video_path |-> <<>>, n |-> 0, written |-> 0,
            reached |-> FALSE, error |-> "none",
            status |-> 0, detail |-> "", frames |-> <<>>]

\* a threadpool request: handler, position, locals (selection, real_files),
\* the answer (status, detail, frames, members), and for the properties:
\* catalog (the listing the answer is to be compared with)
NoRequest == [op |-> "none", pc |-> "idle", selection |-> <<>>,
              real_files |-> <<>>, members |-> <<>>, catalog |-> <<>>,
              frames |-> <<>>, status |-> 0, detail |-> ""]

\* no archive was delivered yet
NoArchive == [n |-> 0, selection |-> <<>>, members |-> <<>>]

\* ffmpeg_exists() was not called yet
NoProbe == [called |-> FALSE, frozen |-> FALSE, bundled |-> FALSE,
            version_ok |-> FALSE, queried |-> FALSE, available |-> FALSE]

\* the directory is empty at start-up, or holds the stray files
StartDirs == {{}, Strays}

Init ==
    /\ output_frames \in { [f \in S |-> 0] : S \in StartDirs }
    /\ temp_video = NoFile
    /\ job = [w \in Procs |-> IdleJob]
    /\ lastRun = 0
    /\ req = NoRequest
    /\ published = GetFramesList(output_frames)
    /\ archived = NoArchive
    /\ probe = NoProbe

\* a start-up over the frames frame_1.jpg .. frame_N.jpg of an earlier run
InitList ==
    /\ \E N \in 0..MaxListed, S \in SUBSET Strays :
          output_frames = [f \in S \cup {FrameName(i) : i \in 1..N} |-> 0]
    /\ temp_video = NoFile
    /\ job = [w \in Procs |-> IdleJob]
    /\ lastRun = 0
    /\ req = NoRequest
    /\ published = GetFramesList(output_frames)
    /\ archived = NoArchive
    /\ probe = NoProbe

\* a start-up over the frames of an earlier run, with or without the stray
\* files
InitArchive ==
    /\ \E N \in 0..MaxFrames, S \in StartDirs :
          output_frames = [f \in S \cup {FrameName(i) : i \in 1..N} |-> 0]
    /\ temp_video = NoFile
    /\ job = [w \in Procs |-> IdleJob]
    /\ lastRun = 0
    /\ req = NoRequest
    /\ published = GetFramesList(output_frames)
    /\ archived = NoArchive
    /\ probe = NoProbe

\* ------------------------------------------------------------ file system
At(kind, name) == [kind |-> kind, name |-> name]

\* where a relative path leads from the working directory: the working
\* directory "cwd", the output directory "out", a directory "above", the
\* staged file "temp", a "file" of the output directory, or "missing"
RECURSIVE Walk(_, _, _, _)
Walk(comps, at, dir, temp) ==
    IF Len(comps) = 0 THEN at
    ELSE LET c == Head(comps)
             to == IF at.kind = "above" THEN
                        (IF c \in {<<>>, Dot, DotDot} THEN at
                         ELSE At("missing", <<>>))
                   ELSE IF at.kind = "cwd" THEN
                        (IF c \in {<<>>, Dot} THEN at
                         ELSE IF c = DotDot THEN At("above", <<>>)
                         ELSE IF c = OUTPUT_DIR THEN At("out", <<>>)
                         ELSE IF c = TempVideo /\ temp.owner # 0
                              THEN At("temp", <<>>)
                         ELSE At("missing", <<>>))
                   ELSE IF at.kind = "out" THEN
                        (IF c \in {<<>>, Dot} THEN at
                         ELSE IF c = DotDot THEN At("cwd", <<>>)
                         ELSE IF c \in DOMAIN dir THEN At("file", c)
                         ELSE At("missing", <<>>))
                   ELSE At("missing", <<>>)   \* below a file, or missing
         IN  Walk(Tail(comps), to, dir, temp)

\* the paths download_zip builds, split once
Paths == {Join(OUTPUT_DIR, id) : id \in Identifiers}
Split == [p \in Paths |-> Components(p, <<>>)]

Resolve(path, dir, temp) == Walk(Split[path], At("cwd", <<>>), dir, temp)

\* os.path.exists(path) for a relative path
Exists(path, dir, temp) == Resolve(path, dir, temp).kind # "missing"

\* the archive member zipf.write(path, arcname) stores: the name and what
\* the path holds now (a file of the output directory with its run tag, the
\* staged video, or a directory entry)
Member(path, arcname, dir, temp) ==
    LET at == Resolve(path, dir, temp)
    IN  [name |-> arcname,
         kind |-> IF at.kind = "file" THEN "file"
                  ELSE IF at.kind = "temp" THEN "video" ELSE "dir",
         tag  |-> IF at.kind = "file" THEN dir[at.name]
                  ELSE IF at.kind = "temp" THEN temp.owner ELSE 0]

\* ------------------------------------------------------------- utilities

\* the purge filter of extract_iframes
PurgeFilter(f) == EndsWith(f, DotJpg) \/ EndsWith(f, DotPng)

\* the directory after the purge loop of extract_iframes
Purged(dir) ==
    LET keep == {f \in DOMAIN dir : ~PurgeFilter(f)}
    IN  [f \in keep |-> dir[f]]

\* the directory after the tool wrote (or overwrote) frame_<k>.jpg
WriteFrame(dir, k, run) ==
    [f \in DOMAIN dir \cup {FrameName(k)} |->
        IF f = FrameName(k) THEN run ELSE dir[f]]

\* ffmpeg_exists(): "ffmpeg -version" is run (lines 68-70) unless the
\* function returned at line 64
version_queried(frozen, bundled) == ~(frozen /\ bundled)

\* ffmpeg_exists(): a bundled executable of a frozen build counts as
\* available as soon as the file exists; otherwise "ffmpeg -version" decides
ffmpeg_exists(frozen, bundled, version_ok) ==
    IF frozen /\ bundled THEN TRUE ELSE version_ok

\* the run of process w has purged the directory and its tool has not
\* terminated
InExtraction(w) == job[w].pc \in {"launch", "tool"}

\* the answers of ffmpeg_exists() over the environments of the process
ToolChecks ==
    { ffmpeg_exists(frozen, bundled, version_ok) :
        frozen \in BOOLEAN, bundled \in BOOLEAN, version_ok \in BOOLEAN }

\* ---------------------------------------------------------- upload_video

\* a handler that stages the payload before it checks the tool
StageThenCheck(w) ==
    /\ job[w].pc \in {"idle", "done"}
    /\ \E available \in ToolChecks, n \in 0..MaxFrames :
         /\ temp_video' = [owner |-> w, frames |-> n, complete |-> TRUE]
         /\ job' = [job EXCEPT ![w] =
              IF available
              THEN [IdleJob EXCEPT !.pc = "purge",
                                   !.input_video_path = TempVideo]
              ELSE [IdleJob EXCEPT !.pc = "done",
                       !.input_video_path = TempVideo,
                       !.status = StatusServerError,
                       !.detail = "ffmpeg not found on server."]]
    /\ UNCHANGED <<output_frames, lastRun, req>>

\* lines 134-135: the request enters the handler and checks the tool
UploadBegin(w) ==
    /\ job[w].pc \in {"idle", "done"}
    /\ \E available \in ToolChecks :
         IF available
         THEN job' = [job EXCEPT ![w] = [IdleJob EXCEPT !.pc = "stage"]]
         ELSE job' = [job EXCEPT ![w] =
                        [IdleJob EXCEPT !.pc = "done",
                            !.status = StatusServerError,
                            !.detail = "ffmpeg not found on server."]]
    /\ UNCHANGED <<output_frames, temp_video, lastRun, req>>

\* a handler that goes on to the extraction without waiting for the copy of
\* the payload to end
StageNoWait(w) ==
    /\ job[w].pc = "stage"
    /\ \E n \in 0..MaxFrames, ok \in BOOLEAN :
         /\ temp_video' = [owner |-> w, frames |-> n, complete |-> ok]
         /\ job' = [job EXCEPT ![w] =
                      [@ EXCEPT !.pc = "purge",
                                !.input_video_path = TempVideo]]
    /\ UNCHANGED <<output_frames, lastRun, req>>

\* lines 138-140: open(input_video_path, "wb") and copy the payload, a video
\* with n key frames.  A failing write leaves the with-block by an exception:
\* the file is closed, nothing removes it, the request ends.
UploadStage(w) ==
    /\ job[w].pc = "stage"
    /\ \E n \in 0..MaxFrames, ok \in BOOLEAN :
         /\ temp_video' = [owner |-> w, frames |-> n, complete |-> ok]
         /\ job' = [job EXCEPT ![w] =
                IF ok THEN [@ EXCEPT !.pc = "purge",
                                     !.input_video_path = TempVideo]
                ELSE [@ EXCEPT !.pc = "done", !.error = "io",
                         !.input_video_path = TempVideo,
                         !.status = StatusServerError,
                         !.detail = "Internal Server Error"]]
    /\ UNCHANGED <<output_frames, lastRun, req>>

\* lines 88-94: extract_iframes creates the folder and removes old frames
ExtractPurge(w) ==
    /\ job[w].pc = "purge"
    /\ output_frames' = Purged(output_frames)
    /\ lastRun' = w
    /\ job' = [job EXCEPT ![w] = [@ EXCEPT !.pc = "launch", !.reached = TRUE]]
    /\ UNCHANGED <<temp_video, req>>

\* line 103: subprocess.run starts the tool.  The executable may fail to
\* start (an OSError, not a CalledProcessError); a started tool opens the
\* file at input_video_path, whatever it holds now, and exits non-zero when
\* there is none.
ExtractLaunch(w) ==
    /\ job[w].pc = "launch"
    /\ \E started \in BOOLEAN :
         job' = [job EXCEPT ![w] =
            IF ~started
            THEN [@ EXCEPT !.pc = "cleanup", !.error = "oserror"]
            ELSE IF temp_video.owner = 0
                 THEN [@ EXCEPT !.pc = "cleanup", !.error = "exit"]
                 ELSE [@ EXCEPT !.pc = "tool", !.n = temp_video.frames]]
    /\ UNCHANGED <<output_frames, temp_video, lastRun, req>>

\* the tool writes its next frame file
ToolWrite(w) ==
    /\ job[w].pc = "tool"
    /\ job[w].written < job[w].n
    /\ output_frames' = WriteFrame(output_frames, job[w].written + 1, w)
    /\ job' = [job EXCEPT ![w] = [@ EXCEPT !.written = @ + 1]]
    /\ UNCHANGED <<temp_video, lastRun, req>>

\* the tool exits with status 0 once every key frame is written
ToolExitOk(w) ==
    /\ job[w].pc = "tool"
    /\ job[w].written = job[w].n
    /\ job' = [job EXCEPT ![w] =
                 [@ EXCEPT !.pc = "cleanup", !.n = 0, !.written = 0]]
    /\ UNCHANGED <<output_frames, temp_video, lastRun, req>>

\* the tool exits non-zero, at any point of its run: check=True raises
\* CalledProcessError
ToolExitFail(w) ==
    /\ job[w].pc = "tool"
    /\ job' = [job EXCEPT ![w] =
                 [@ EXCEPT !.pc = "cleanup", !.error = "exit",
                           !.n = 0, !.written = 0]]
    /\ UNCHANGED <<output_frames, temp_video, lastRun, req>>

\* a cleanup placed after the try statement instead of in its finally clause
CleanedUpOnSuccess(file, error) == IF error = "none" THEN NoFile ELSE file

\* lines 147-150, the finally clause: what is left at input_video_path
CleanedUp(file, error) == NoFile

\* lines 145-150: the finally clause removes the staged file on every exit
\* path; CalledProcessError becomes a 500 with a message, any other
\* exception leaves the handler and becomes the framework's 500
UploadCleanup(w) ==
    /\ job[w].pc = "cleanup"
    /\ temp_video' = CleanedUp(temp_video, job[w].error)
    /\ job' = [job EXCEPT ![w] =
          IF job[w].error = "exit"
          THEN [@ EXCEPT !.pc = "done", !.status = StatusServerError,
                         !.detail = "Error extracting frames"]
          ELSE IF job[w].error = "oserror"
          THEN [@ EXCEPT !.pc = "done", !.status = StatusServerError,
                         !.detail = "Internal Server Error"]
          ELSE [@ EXCEPT !.pc = "respond"]]
    /\ UNCHANGED <<output_frames, lastRun, req>>

\* lines 153-157: the page with the refreshed listing
UploadRespond(w) ==
    /\ job[w].pc = "respond"
    /\ job' = [job EXCEPT ![w] =
                 [@ EXCEPT !.pc = "done", !.status = StatusOK,
                           !.detail = "Frames extracted successfully!",
                           !.frames = GetFramesList(output_frames)]]
    /\ UNCHANGED <<output_frames, temp_video, lastRun, req>>

\* ----------------------------------------------------------------- index

\* lines 115-126: the page with the listing, scanned when the request runs
Index ==
    /\ req.pc = "idle"
    /\ req' = [NoRequest EXCEPT !.op = "index", !.pc = "done",
                  !.status = StatusOK,
                  !.frames = GetFramesList(output_frames),
                  !.catalog = published]
    /\ UNCHANGED <<output_frames, temp_video, job, lastRun>>

\* ---------------------------------------------------------- download_zip

\* a handler that lost the check of line 177
NeverEmpty(selected_files) == FALSE

\* line 177: "if not selected_files"
NoSelection(selected_files) == Len(selected_files) = 0

\* lines 181-185: the paths of the requested names that exist, in request
\* order, one entry per occurrence
RECURSIVE RealFiles(_, _, _)
RealFiles(selected_files, dir, temp) ==
    IF Len(selected_files) = 0 THEN <<>>
    ELSE LET file_path == Join(OUTPUT_DIR, Head(selected_files))
             rest == RealFiles(Tail(selected_files), dir, temp)
         IN  IF Exists(file_path, dir, temp) THEN <<file_path>> \o rest
             ELSE rest

\* lines 196-199: one archive member per entry of real_files
ZipMembers(real_files, dir, temp) ==
    [i \in 1..Len(real_files) |->
        Member(real_files[i], Basename(real_files[i]), dir, temp)]

Selections ==
    UNION { [1..k -> Identifiers] : k \in 0..MaxSel }

\* lines 176-188: the request is rejected, or its files are validated
DownloadZipCheck ==
    /\ req.pc = "idle"
    /\ LET r == [NoRequest EXCEPT !.op = "download_zip",
                    !.catalog = GetFramesList(output_frames)]
       IN  \E selected_files \in Selections :
             LET real_files ==
                     RealFiles(selected_files, output_frames, temp_video)
             IN  req' =
                   IF NoSelection(selected_files)
                   THEN [r EXCEPT !.pc = "done", !.selection = selected_files,
                            !.status = StatusClientError,
                            !.detail = "No frames selected."]
                   ELSE IF Len(real_files) = 0
                   THEN [r EXCEPT !.pc = "done", !.selection = selected_files,
                            !.status = StatusClientError,
                            !.detail = "No valid frames found."]
                   ELSE [r EXCEPT !.pc = "zip", !.selection = selected_files,
                            !.real_files = real_files]
    /\ UNCHANGED <<output_frames, temp_video, job, lastRun>>

\* a handler that moves the files into the archive: each archived file is
\* removed from the output directory
DownloadZipMove ==
    /\ req.pc = "zip"
    /\ req' = [req EXCEPT !.pc = "done", !.status = StatusOK,
                  !.members = ZipMembers(req.real_files, output_frames,
                                         temp_video)]
    /\ output_frames' =
          [f \in DOMAIN output_frames
                \ {Basename(req.real_files[i]) : i \in 1..Len(req.real_files)}
             |-> output_frames[f]]
    /\ UNCHANGED <<temp_video, job, lastRun>>

\* lines 190-206: the archive is written in memory and streamed; a file
\* that is gone by now makes zipf.write raise FileNotFoundError
DownloadZipWrite ==
    /\ req.pc = "zip"
    /\ req' =
         IF \A i \in 1..Len(req.real_files) :
               Exists(req.real_files[i], output_frames, temp_video)
         THEN [req EXCEPT !.pc = "done", !.status = StatusOK,
                  !.members = ZipMembers(req.real_files, output_frames,
                                         temp_video)]
         ELSE [req EXCEPT !.pc = "done", !.status = StatusServerError,
                  !.detail = "Internal Server Error"]
    /\ UNCHANGED <<output_frames, temp_video, job, lastRun>>

\* ------------------------------------------------------------- get_frame

\* the values of the path parameter of "/frames/{filename}": one path
\* segment, so no "/"
FileNames == {id \in Identifiers : \A i \in 1..Len(id) : id[i] # 47}

\* lines 164-166: the path is built and looked up
GetFrameCheck ==
    /\ req.pc = "idle"
    /\ LET r == [NoRequest EXCEPT !.op = "get_frame",
                    !.catalog = GetFramesList(output_frames)]
       IN  \E filename \in FileNames :
             LET file_path == Join(OUTPUT_DIR, filename)
             IN  req' =
                   IF ~Exists(file_path, output_frames, temp_video)
                   THEN [r EXCEPT !.pc = "done", !.selection = <<filename>>,
                            !.status = StatusNotFound,
                            !.detail = "Frame not found."]
                   ELSE [r EXCEPT !.pc = "send", !.selection = <<filename>>,
                            !.real_files = <<file_path>>]
    /\ UNCHANGED <<output_frames, temp_video, job, lastRun>>

\* a handler that hands the frame out once: the file is removed when it has
\* been sent
GetFrameTake ==
    /\ req.pc = "send"
    /\ req' = [req EXCEPT !.pc = "done", !.status = StatusOK,
                  !.members = <<Member(req.real_files[1], req.selection[1],
                                       output_frames, temp_video)>>]
    /\ output_frames' =
          [f \in DOMAIN output_frames \ {req.selection[1]} |-> output_frames[f]]
    /\ UNCHANGED <<temp_video, job, lastRun>>

\* line 167: FileResponse(file_path) reads the file when the answer is sent
\* and raises when the file is gone by then
GetFrameSend ==
    /\ req.pc = "send"
    /\ req' =
         IF Exists(req.real_files[1], output_frames, temp_video)
         THEN [req EXCEPT !.pc = "done", !.status = StatusOK,
                  !.members = <<Member(req.real_files[1], req.selection[1],
                                       output_frames, temp_video)>>]
         ELSE [req EXCEPT !.pc = "done", !.status = StatusServerError,
                  !.detail = "Internal Server Error"]
    /\ UNCHANGED <<output_frames, temp_video, job, lastRun>>

\* the answer is sent and the thread goes back to the pool
Answer ==
    /\ req.pc = "done"
    /\ req' = NoRequest
    /\ UNCHANGED <<output_frames, temp_video, job, lastRun>>

\* -------------------------------------------------------- specifications

\* the history variable: while a run is between its purge and the end of its
\* tool, the listing of before; otherwise the listing of now
Record ==
    /\ published' = IF \E w \in Procs : job'[w].pc \in {"launch", "tool"}
                    THEN published
                    ELSE GetFramesList(output_frames')
    /\ UNCHANGED <<archived, probe>>

\* the history variable of the archives: the first archive delivered, and
\* whether the same request was answered again later (n = 2)
Remember ==
    /\ published' = GetFramesList(output_frames')
    /\ archived' =
         IF req'.op = "download_zip" /\ req'.pc = "done" /\ req.pc # "done"
         THEN IF archived.n = 0 /\ req'.status = StatusOK
              THEN [n |-> 1, selection |-> req'.selection,
                    members |-> req'.members]
              ELSE IF archived.n > 0 /\ req'.selection = archived.selection
              THEN [archived EXCEPT !.n = 2]
              ELSE archived
         ELSE archived
    /\ UNCHANGED probe

\* the history variable of the tool check: when the step is the start of an
\* upload, the environment in which ffmpeg_exists() gave the answer the
\* handler went on with
Probed(w) ==
    /\ UNCHANGED <<published, archived>>
    /\ IF job[w].pc \in {"idle", "done"}
       THEN \E frozen \in BOOLEAN, bundled \in BOOLEAN, version_ok \in BOOLEAN :
              /\ ffmpeg_exists(frozen, bundled, version_ok)
                    = (job'[w].pc = "stage")
              /\ probe' = [called |-> TRUE, frozen |-> frozen,
                           bundled |-> bundled, version_ok |-> version_ok,
                           queried |-> version_queried(frozen, bundled),
                           available |-> ffmpeg_exists(frozen, bundled,
                                                       version_ok)]
       ELSE UNCHANGED probe

\* one server process and one threadpool thread
Next ==
    \/ UploadBegin(1) /\ Record
    \/ UploadStage(1) /\ Record
    \/ ExtractPurge(1) /\ Record
    \/ ExtractLaunch(1) /\ Record
    \/ ToolWrite(1) /\ Record
    \/ ToolExitOk(1) /\ Record
    \/ ToolExitFail(1) /\ Record
    \/ UploadCleanup(1) /\ Record
    \/ UploadRespond(1) /\ Record
    \/ Index /\ Record
    \/ DownloadZipCheck /\ Record
    \/ DownloadZipWrite /\ Record
    \/ GetFrameCheck /\ Record
    \/ GetFrameSend /\ Record
    \/ Answer /\ Record

Spec == Init /\ [][Next]_vars

\* the uploads of all server processes, from an empty output directory
NextWorkers ==
    \E w \in Procs :
        \/ UploadBegin(w) /\ UNCHANGED <<published, archived, probe>>
        \/ UploadStage(w) /\ UNCHANGED <<published, archived, probe>>
        \/ ExtractPurge(w) /\ UNCHANGED <<published, archived, probe>>
        \/ ExtractLaunch(w) /\ UNCHANGED <<published, archived, probe>>
        \/ ToolWrite(w) /\ UNCHANGED <<published, archived, probe>>
        \/ ToolExitOk(w) /\ UNCHANGED <<published, archived, probe>>
        \/ ToolExitFail(w) /\ UNCHANGED <<published, archived, probe>>
        \/ UploadCleanup(w) /\ UNCHANGED <<published, archived, probe>>
        \/ UploadRespond(w) /\ UNCHANGED <<published, archived, probe>>

SpecWorkers == Init /\ [][NextWorkers]_vars

\* the uploads of one server process, with the environment of each tool
\* check
NextLocator ==
    \/ UploadBegin(1) /\ Probed(1)
    \/ UploadStage(1) /\ Probed(1)
    \/ ExtractPurge(1) /\ Probed(1)
    \/ ExtractLaunch(1) /\ Probed(1)
    \/ ToolWrite(1) /\ Probed(1)
    \/ ToolExitOk(1) /\ Probed(1)
    \/ ToolExitFail(1) /\ Probed(1)
    \/ UploadCleanup(1) /\ Probed(1)
    \/ UploadRespond(1) /\ Probed(1)

SpecLocator == Init /\ [][NextLocator]_vars

\* requests of the threadpool handlers over a directory found at start-up,
\* no upload in between
NextArchive ==
    \/ Index /\ Remember
    \/ GetFrameCheck /\ Remember
    \/ GetFrameSend /\ Remember
    \/ DownloadZipCheck /\ Remember
    \/ DownloadZipWrite /\ Remember
    \/ Answer /\ Remember

SpecArchive == InitArchive /\ [][NextArchive]_vars

\* listings of a directory found at start-up
NextList ==
    \/ Index /\ Record
    \/ Answer /\ Record

SpecList == InitList /\ [][NextList]_vars

\* ------------------------------------------------------------ properties

Range(seq) == {seq[i] : i \in 1..Len(seq)}
Count(seq, x) == Cardinality({i \in 1..Len(seq) : seq[i] = x})
IndexOf(seq, x) == CHOOSE i \in 1..Len(seq) : seq[i] = x

\* the request of process w has staged its payload and not yet cleaned up
InFlight(w) == job[w].pc \in {"purge", "launch", "tool", "cleanup"}

\* the request of process w went through extract_iframes and is over
Finished(w) == job[w].pc \in {"respond", "done"} /\ job[w].reached

\* C1: two jobs in flight at the same time have different staged-video
\* paths, and the file at a job's path holds that job's complete payload
\* until the job itself removes it (no other job overwrites or deletes it).
C1_IndependentStaging ==
    /\ \A w1 \in Procs, w2 \in Procs :
          (w1 # w2 /\ InFlight(w1) /\ InFlight(w2))
             => job[w1].input_video_path # job[w2].input_video_path
    /\ \A w \in Procs :
          (InFlight(w) /\ job[w].pc # "cleanup")
             => (temp_video.owner = w /\ temp_video.complete)

\* C2: no two jobs are at the same time between the purge of the output
\* directory and the termination of their tool.
C2_ExtractionSerialized ==
    \A w1 \in Procs, w2 \in Procs :
        w1 # w2 => ~(InExtraction(w1) /\ InExtraction(w2))

\* C3: once a request that reached the extraction step is over, however the
\* step ended, its staged file does not exist.
C3_StagedFileRemoved ==
    \A w \in Procs : Finished(w) => temp_video.owner # w

\* C3 witness: one request ended by a non-zero tool exit and another by an
\* exception of the launch, both after reaching the extraction step
C3_Witness ==
    \E w1 \in Procs, w2 \in Procs :
        /\ Finished(w1) /\ job[w1].error = "exit"
        /\ Finished(w2) /\ job[w2].error = "oserror"

\* C4: after an extraction run (here: one that succeeded), every file the
\* listing returns was written by that run.
C4_ListingIsLastRun ==
    (lastRun # 0 /\ Finished(lastRun) /\ job[lastRun].error = "none")
       => \A f \in Range(GetFramesList(output_frames)) :
              output_frames[f] = lastRun

\* C5: a listing taken while a run has purged the directory and not yet
\* filled it still shows the frames of the last completed extraction.
C5_NoMidExtractionListing ==
    req.op = "index" => req.frames = req.catalog

\* C6: frame_i.jpg precedes frame_j.jpg in a listing exactly when i < j.
C6_NumericOrder ==
    req.op = "index" =>
        \A i \in 1..MaxListed, j \in 1..MaxListed :
            (/\ FrameName(i) \in Range(req.frames)
             /\ FrameName(j) \in Range(req.frames))
               => ((IndexOf(req.frames, FrameName(i))
                      < IndexOf(req.frames, FrameName(j))) <=> (i < j))

\* C7: a request whose tool exited non-zero answers with a server error and
\* leaves no file of its run for the listing, fetch-frame or build-archive.
C7_FailedRunLeavesNoFrames ==
    \A w \in Procs :
        (job[w].pc = "done" /\ job[w].error = "exit") =>
            /\ job[w].status = StatusServerError
            /\ \A f \in DOMAIN output_frames : output_frames[f] # w

\* C8: the members of an archive are the requested identifiers that are in
\* the listing, each a frame stored under its bare identifier.
C8_ArchiveIsValidatedFrames ==
    (req.op = "download_zip" /\ req.status = StatusOK) =>
        /\ {req.members[i].name : i \in 1..Len(req.members)}
              = Range(req.selection) \cap Range(req.catalog)
        /\ \A i \in 1..Len(req.members) : req.members[i].kind = "file"

\* C9: a valid identifier requested more than once is one member of the
\* archive.
C9_DuplicatesStoredOnce ==
    (req.op = "download_zip" /\ req.status = StatusOK) =>
        LET names == [i \in 1..Len(req.members) |-> req.members[i].name]
        IN  \A f \in Range(req.catalog) :
                Count(req.selection, f) > 1 => Count(names, f) = 1

\* C10: an empty archive request is answered 400 "No frames selected.",
\* builds no archive and leaves the output directory and the staged file as
\* they are.
C10_EmptyRequestRejected ==
    /\ [](  (req.op = "download_zip" /\ req.selection = <<>>)
         => /\ req.pc = "done"
            /\ req.status = StatusClientError
            /\ req.detail = "No frames selected."
            /\ req.real_files = <<>>
            /\ req.members = <<>> )
    /\ [][ (req'.op = "download_zip" /\ req'.selection = <<>> /\ req' # req)
              => UNCHANGED <<output_frames, temp_video>> ]_vars

\* C10 witness: an empty request has been answered
C10_Witness ==
    req.op = "download_zip" /\ req.selection = <<>> /\ req.pc = "done"

\* C11: a non-empty archive request none of whose identifiers is in the
\* listing is answered 400 "No valid frames found." and builds no archive.
C11_NoMatchRejected ==
    (/\ req.op = "download_zip" /\ req.pc = "done"
     /\ req.selection # <<>>
     /\ Range(req.selection) \cap Range(req.catalog) = {})
       => /\ req.status = StatusClientError
          /\ req.detail = "No valid frames found."
          /\ req.members = <<>>

\* the request of process w was rejected because the tool is not available
Rejected(j) == j.pc = "done" /\ j.detail = "ffmpeg not found on server."

C13_PartialWriteRemoved ==
    \A w \in Procs :
        (job[w].pc = "done" /\ job[w].error = "io") => temp_video.owner # w

\* C14: fetch-frame answers with the file exactly when the requested
\* identifier is in the listing, and with not-found otherwise.
C14_FetchIffCataloged ==
    (req.op = "get_frame" /\ req.pc = "done") =>
        /\ (req.status = StatusOK) <=> (req.selection[1] \in Range(req.catalog))
        /\ (req.status = StatusNotFound)
              <=> (req.selection[1] \notin Range(req.catalog))

\* C15: with no upload in between, a repeated archive request is answered
\* with an archive of the same member files as the first one.
C15_ArchiveIdempotent ==
    (/\ archived.n > 0
     /\ req.op = "download_zip" /\ req.pc = "done"
     /\ req.selection = archived.selection)
       => /\ req.status = StatusOK
          /\ req.members = archived.members

\* C15 witness: a request of two different files was answered a second time
C15_Witness ==
    /\ archived.n = 2
    /\ req.op = "download_zip" /\ req.pc = "done"
    /\ req.selection = archived.selection
    /\ Cardinality(Range(req.selection)) > 1
    /\ Len(req.members) > 1

\* C16: ffmpeg_exists() answers "available" only when it ran the version
\* query of the tool and the query succeeded.
C16_AvailableOnlyIfQueried ==
    (probe.called /\ probe.available)
        => (probe.queried /\ probe.version_ok)

\* C17: every file that passed the existence check of an archive request is
\* still there when the archive is written, so the request is answered with
\* the archive.
C17_CheckedFilesStay ==
    /\ (req.op = "download_zip" /\ req.pc = "zip") =>
          \A i \in 1..Len(req.real_files) :
              Exists(req.real_files[i], output_frames, temp_video)
    /\ (req.op = "download_zip" /\ req.pc = "done"
          /\ req.real_files # <<>>) => req.status = StatusOK

\* the staged file holds the complete payload of process w
Staged(w) == temp_video.owner = w /\ temp_video.complete

\* C18: the stages of one upload run in order: the purge happens on a
\* completely staged payload and before the tool starts, the tool starts and
\* writes only after the purge and on the complete payload, and the listing
\* of the answer is taken after the tool ended.
C18_StagesInOrder ==
    [][ \A w \in Procs :
          /\ (job[w].pc # "launch" /\ job'[w].pc = "launch")
                => /\ Staged(w) /\ ~job[w].reached
                   /\ job[w].written = 0
                   /\ output_frames' = Purged(output_frames)
          /\ (job[w].pc # "tool" /\ job'[w].pc = "tool")
                => /\ Staged(w) /\ job[w].reached
                   /\ output_frames = Purged(output_frames)
          /\ (job'[w] # job[w] /\ output_frames' # output_frames)
                => \/ job[w].pc = "purge" /\ job'[w].pc = "launch"
                   \/ job[w].pc = "tool" /\ job[w].reached
          /\ (job[w].status # StatusOK /\ job'[w].status = StatusOK)
                => /\ job[w].reached /\ job[w].n = 0 /\ job[w].written = 0
                   /\ ~InExtraction(w) /\ ~InExtraction(w)'
                   /\ job'[w].frames = GetFramesList(output_frames) ]_vars

\* C18 witness: an upload was answered with a listing that holds a frame
\* its tool wrote
C18_Witness ==
    \E w \in Procs :
        /\ job[w].pc = "done" /\ job[w].status = StatusOK
        /\ \E f \in Range(job[w].frames) : output_frames[f] = w

\* C19: every member of an archive is a file that lies directly in the
\* output directory.
C19_MembersInsideOutputDir ==
    (req.op = "download_zip" /\ req.pc = "done" /\ req.status = StatusOK) =>
        \A i \in 1..Len(req.members) :
            /\ req.members[i].kind = "file"
            /\ req.real_files[i] = Join(OUTPUT_DIR, req.members[i].name)

\* C20: no step of index, get_frame or download_zip, whether the request
\* succeeds or is rejected, changes the files of the output directory or the
\* staged video.
C20_ReadOnly ==
    [][ (req' # req) => UNCHANGED <<output_frames, temp_video>> ]_vars

\* C20 witness: a frame was served and its file is still in the output
\* directory
C20_Witness ==
    /\ req.op = "get_frame" /\ req.pc = "done" /\ req.status = StatusOK
    /\ req.selection[1] \in DOMAIN output_frames
    /\ ListFilter(req.selection[1])

====
